---- MODULE Spec2Model ----
(***************************************************************************)
(* Transfer settlement engine: the application server (bas_server.py)      *)
(* serving concurrent callers on one shared instance, and the database     *)
(* server (bdb_server.py) over one SQLite file in rollback-journal mode.   *)
(* Money is counted in cents, submitted amounts in mills (1/1000), time in *)
(* seconds.                                                                *)
(***************************************************************************)
EXTENDS Integers, Sequences, FiniteSets, TLC

\* ------------------------------------------------------------------ bounds
NumProcs == 2
\* how many state-changing requests and clock ticks one behaviour may hold
MaxOps == 3
\* the same, for the behaviours of SpecDeep
MaxDeepOps == 4
\* how many amounts spread over the tiers have their fee computed
MaxFeeSteps == 60
\* the same as MaxOps, for the behaviours of SpecSweep
MaxSweepOps == 6

Procs == 1..NumProcs

\* --------------------------------------------------------- program constants
IDEMPOTENCY_WINDOW == 5
TOKEN_EXPIRATION_SECONDS == 86400
MaxReferenceLen == 200

NoId == 0
NoTime == -1
BogusToken == 0

\* config.MOCK_USERS: username -> password, user_id, account_id, initial_balance
Usernames == {"john", "jane"}
MOCK_USERS ==
  [u \in Usernames |->
     IF u = "john"
       THEN [password |-> "pass123", user_id |-> 1, account_id |-> 1001,
             initial_balance |-> 5000000]
       ELSE [password |-> "pass456", user_id |-> 2, account_id |-> 1002,
             initial_balance |-> 7500000]]

AccountIds == {MOCK_USERS[u].account_id : u \in Usernames}
UnknownAccount == 999999

\* a digest that does not depend on the password
Sha256OfNothing(pw) == <<"sha256", "">>

\* hashlib.sha256(password).hexdigest(): distinct passwords, distinct digests
Sha256(pw) == <<"sha256", pw>>

\* init_database: the users table, one row per mock user
Users ==
  [u \in Usernames |->
     [user_id |-> MOCK_USERS[u].user_id, password_hash |-> Sha256(MOCK_USERS[u].password)]]

\* init_database: the accounts table, account_id -> balance
InitBalances == [a \in AccountIds |->
  LET u == CHOOSE x \in Usernames : MOCK_USERS[x].account_id = a
  IN MOCK_USERS[u].initial_balance]

\* the account row owned by a user (accounts.user_id), NoId when there is none
AccountOfUser(uid) ==
  IF \E u \in Usernames : MOCK_USERS[u].user_id = uid
    THEN MOCK_USERS[CHOOSE u \in Usernames : MOCK_USERS[u].user_id = uid].account_id
    ELSE NoId

\* ------------------------------------------------------------------ inputs
\* what a caller submits: <<recipient account, amount in mills, reference>>; a
\* reference is the string "A" * n, given by its length n
SubmitArgs == {
  <<1002, 30000000, 0>>,           \* 30000.00
  <<1002, 60000000, 0>>,           \* 60000.00
  <<1001, 30000000, 0>>,
  <<UnknownAccount, 30000000, 0>>,
  <<1002, -50000, 0>>,             \* -50.00
  <<1002, 30000000, 201>> }
\* submissions at the limits of validation: to the caller's own account, and with
\* references of 200 and 201 characters
ValidationArgs == {
  <<1001, 30000000, 0>>,
  <<1001, -50000, 0>>,
  <<1001, 30000000, MaxReferenceLen + 1>>,
  <<1002, 30000000, MaxReferenceLen>>,
  <<1002, 30000000, MaxReferenceLen + 1>> }
\* what a client of the database server has create_transfer insert:
\* <<from account, to account, amount in cents>>
DirectArgs == { <<1002, 1001, 2000000>>, <<1002, UnknownAccount, 10000>> }
\* two submissions with different keys: 100.00 and 200.00
SweepArgs == { <<1002, 100000, 0>>, <<1002, 200000, 0>> }
\* a lapse of time shorter than the idempotency window
ShortStep == 3
\* amounts below and above half a cent: 0.004 and 0.006
TinyArgs == { <<1002, 4, 0>>, <<1002, 6, 0>> }
\* the two users sending each other 30000.00
SymmetricArgs == { <<1002, 30000000, 0>>, <<1001, 30000000, 0>> }
\* submissions whose key is formatted: <<user id, recipient, amount in mills,
\* reference as its characters>>; recipients and amounts whose digits run into each
\* other, amounts that round to the same cent, references that hold the separator
KeyArgs ==
  {<<u, r, a, t>> : u \in {1, 2}, r \in {1, 11, 1002}, a \in {2500, 2504, 12500},
                    t \in {<<>>, <<":">>, <<"2", ".", "5", ":">>}}
TickSteps == {IDEMPOTENCY_WINDOW, TOKEN_EXPIRATION_SECONDS}
\* get_transaction_history(token, limit=50)
DefaultLimit == 50
Limits == {1, DefaultLimit}
LoginArgs == { <<"john", "pass123">>, <<"john", "wrongpass">>, <<"nobody", "pass123">> }

\* the amounts, in cents, whose fee is asked for: the tier boundaries, amounts at
\* and around zero, amounts whose fee ends on a half cent or needs rounding, and
\* amounts spread over the tiers
TierBoundaries ==
  {200000, 200001, 1000000, 1000001, 2000000, 2000001, 5000000, 5000001,
   10000000, 10000001}
FeeAmounts ==
  TierBoundaries \cup {-100000, -1, 0, 1, 200300, 200600, 201000, 333333}
    \cup {k * 217831 : k \in 1..MaxFeeSteps}

\* ----------------------------------------------------------- pure functions
\* round(x, 2) of a non-negative quotient n/d given in cents: nearest cent, ties to even
RoundDiv(n, d) ==
  LET q == n \div d
      r == n % d
  IN IF 2 * r < d THEN q
     ELSE IF 2 * r > d THEN q + 1
     ELSE IF q % 2 = 0 THEN q ELSE q + 1

\* round(amount, 2): mills to cents
Round2(mills) ==
  IF mills >= 0 THEN RoundDiv(mills, 10) ELSE 0 - RoundDiv(0 - mills, 10)

\* a table whose second tier starts at 2000.00, the last amount of the first
FEE_TIERSOverlapping == <<
  [min |-> 0,        max |-> 200000,   rate |-> 0,   cap |-> 0,     unbounded |-> FALSE],
  [min |-> 200000,   max |-> 1000000,  rate |-> 250, cap |-> 2000,  unbounded |-> FALSE],
  [min |-> 1000001,  max |-> 2000000,  rate |-> 200, cap |-> 2500,  unbounded |-> FALSE],
  [min |-> 2000001,  max |-> 5000000,  rate |-> 125, cap |-> 4000,  unbounded |-> FALSE],
  [min |-> 5000001,  max |-> 10000000, rate |-> 80,  cap |-> 5000,  unbounded |-> FALSE],
  [min |-> 10000001, max |-> 0,        rate |-> 50,  cap |-> 10000, unbounded |-> TRUE] >>

\* a table whose third tier charges 0.1 %: 10000.01 pays less than 10000.00
FEE_TIERSCheaperThird == <<
  [min |-> 0,        max |-> 200000,   rate |-> 0,   cap |-> 0,     unbounded |-> FALSE],
  [min |-> 200001,   max |-> 1000000,  rate |-> 250, cap |-> 2000,  unbounded |-> FALSE],
  [min |-> 1000001,  max |-> 2000000,  rate |-> 100, cap |-> 2500,  unbounded |-> FALSE],
  [min |-> 2000001,  max |-> 5000000,  rate |-> 125, cap |-> 4000,  unbounded |-> FALSE],
  [min |-> 5000001,  max |-> 10000000, rate |-> 80,  cap |-> 5000,  unbounded |-> FALSE],
  [min |-> 10000001, max |-> 0,        rate |-> 50,  cap |-> 10000, unbounded |-> TRUE] >>

\* config.FEE_TIERS in cents; rate is per 100000
FEE_TIERS == <<
  [min |-> 0,        max |-> 200000,   rate |-> 0,   cap |-> 0,     unbounded |-> FALSE],
  [min |-> 200001,   max |-> 1000000,  rate |-> 250, cap |-> 2000,  unbounded |-> FALSE],
  [min |-> 1000001,  max |-> 2000000,  rate |-> 200, cap |-> 2500,  unbounded |-> FALSE],
  [min |-> 2000001,  max |-> 5000000,  rate |-> 125, cap |-> 4000,  unbounded |-> FALSE],
  [min |-> 5000001,  max |-> 10000000, rate |-> 80,  cap |-> 5000,  unbounded |-> FALSE],
  [min |-> 10000001, max |-> 0,        rate |-> 50,  cap |-> 10000, unbounded |-> TRUE] >>

\* a tier that leaves out its upper boundary
InTierHalfOpen(t, amount) == t.min <= amount /\ (t.unbounded \/ amount < t.max)

\* min_amount <= amount <= max_amount
InTier(t, amount) == t.min <= amount /\ (t.unbounded \/ amount <= t.max)

\* the first tier of the table that holds amount, 0 when none does
TierOf(amount) ==
  IF \E i \in 1..Len(FEE_TIERS) : InTier(FEE_TIERS[i], amount)
    THEN CHOOSE k \in 1..Len(FEE_TIERS) :
           /\ InTier(FEE_TIERS[k], amount)
           /\ \A j \in 1..(k - 1) : ~InTier(FEE_TIERS[j], amount)
    ELSE 0

\* min(amount * percentage, cap), in 1/100000 of a cent
FeeRaw(t, amount) ==
  IF amount * t.rate <= t.cap * 100000 THEN amount * t.rate ELSE t.cap * 100000

\* a rounding that drops the fraction of a cent
RoundResultsDown(n, d) == {n \div d}

\* round(x, 2) of the float that stands for n/d cents: the nearest cent. When n/d
\* lies exactly halfway between two cents the float lies a little to one side or
\* the other, and round returns the cent on that side: either neighbour
RoundResults(n, d) ==
  LET q == n \div d
      r == n % d
  IN IF 2 * r < d THEN {q}
     ELSE IF 2 * r > d THEN {q + 1}
     ELSE {q, q + 1}

\* a fee computed without the test for amount <= 0, an amount outside every tier
\* charged under the last one
calculate_feeNoGuard(amount) ==
  LET i == IF TierOf(amount) = 0 THEN Len(FEE_TIERS) ELSE TierOf(amount)
  IN RoundResults(FeeRaw(FEE_TIERS[i], amount), 100000)

\* BankApplicationServer.calculate_fee, amount and fee in cents: the values the
\* call can return
calculate_fee(amount) ==
  IF amount <= 0 THEN {0}
  ELSE IF TierOf(amount) = 0 THEN {0}
  ELSE RoundResults(FeeRaw(FEE_TIERS[TierOf(amount)], amount), 100000)

DigitChars == <<"0", "1", "2", "3", "4", "5", "6", "7", "8", "9">>

RECURSIVE Digits(_)
\* str(n) of a natural number, as its characters
Digits(n) ==
  IF n < 10 THEN <<DigitChars[n + 1]>>
  ELSE Digits(n \div 10) \o <<DigitChars[(n % 10) + 1]>>

\* str(amount) of the float round(amount, 2), the amount given in cents: the
\* shortest decimal that reads back as the float, with at least one decimal
AmountText(cents) ==
  Digits(cents \div 100) \o <<".">> \o
    (IF cents % 10 = 0 THEN Digits((cents % 100) \div 10)
     ELSE <<DigitChars[((cents % 100) \div 10) + 1], DigitChars[(cents % 10) + 1]>>)

\* a key formatted without the separators
transfer_keyUnseparated(user_id, recipient, amount, text) ==
  Digits(user_id) \o Digits(recipient) \o AmountText(amount) \o text

\* f"{user_id}:{recipient_account_id}:{amount}:{reference}", as its characters
transfer_key(user_id, recipient, amount, text) ==
  Digits(user_id) \o <<":">> \o Digits(recipient) \o <<":">> \o AmountText(amount)
    \o <<":">> \o text

\* hashlib.md5(transfer_key.encode()).hexdigest(): distinct keys, distinct digests
Md5(key) == <<"md5", key>>

\* the key of a submission, standing for the digest of its formatted key (the
\* reference given by its length)
TransferKey(user_id, recipient, amount, reference) ==
  <<user_id, recipient, amount, reference>>

\* the idempotency test of submit_transfer
IsDuplicate(rt, key, t) ==
  key \in DOMAIN rt /\ t - rt[key] < IDEMPOTENCY_WINDOW

\* self.recent_transfers[transfer_hash] = current_time
RecordKey(rt, key, t) ==
  [k \in (DOMAIN rt) \cup {key} |-> IF k = key THEN t ELSE rt[k]]

\* {k: v for k, v in self.recent_transfers.items() if current_time - v < WINDOW}
Sweep(rt, t) ==
  [k \in {x \in DOMAIN rt : t - rt[x] < IDEMPOTENCY_WINDOW} |-> rt[k]]

\* variants of the definitions that follow, each wrong in one way
InsufficientFundsNever(sender_balance, total_deduction) == FALSE
NewSenderBalanceNoFee(sender_balance, amount, fee) == sender_balance - amount
NewRecipientBalanceNoCredit(recipient_balance, amount) == recipient_balance

\* settle_transfer_transaction: the funds test and the two new balances
InsufficientFunds(sender_balance, total_deduction) == sender_balance < total_deduction
NewSenderBalance(sender_balance, amount, fee) == sender_balance - (amount + fee)
NewRecipientBalance(recipient_balance, amount) == recipient_balance + amount

\* ------------------------------------------------------------------- state
VARIABLES
  now,               \* the wall clock read by time.time() and datetime.now()
  sessions,          \* sessions table: token -> [user_id, expires_at]
  balances,          \* accounts table: account_id -> balance
  transfers,         \* transfers table: transfer_id -> row
  recent_transfers,  \* BankApplicationServer.recent_transfers: key -> time
  dbShared,          \* connections holding SQLite's SHARED lock
  dbReserved,        \* the connection holding SQLite's RESERVED lock, NoId if none
  pc,                \* where each caller's request stands
  loc,               \* the locals of each caller's request in progress
  ret,               \* what each caller's latest finished request returned
  last,              \* each caller's latest submit_transfer that passed the guard
  opsLeft,           \* state-changing requests and ticks still allowed
  store              \* whether the database server answers the application server's calls

vars == <<now, sessions, balances, transfers, recent_transfers, dbShared, dbReserved,
          pc, loc, ret, last, opsLeft, store>>

NoRef == [len |-> 0, err |-> ""]
NoKey == <<NoId, NoId, 0, 0>>
EmptyMap == [k \in {} |-> 0]

LocInit ==
  [op |-> "none", username |-> "", password |-> "", token |-> BogusToken,
   user_id |-> NoId, sender_account_id |-> NoId,
   recipient_account_id |-> NoId, amount |-> 0, reference |-> 0, balance |-> 0,
   current_time |-> NoTime, swept |-> EmptyMap, fee |-> 0, transfer_id |-> NoId,
   created_at |-> NoTime, limit |-> 0, text |-> <<>>, transfer_hash |-> <<>>,
   tx_from |-> NoId, tx_to |-> NoId, tx_amount |-> 0, tx_fee |-> 0,
   sender_balance |-> 0, recipient_balance |-> 0]

RetInit ==
  [ok |-> FALSE, kind |-> "none", token |-> BogusToken, transfer_id |-> NoId,
   amount |-> 0, fee |-> 0, balance |-> 0, status |-> "", reference |-> NoRef,
   history |-> <<>>, raised |-> FALSE, from_account_id |-> NoId, to_account_id |-> NoId]

LastInit == [key |-> NoKey, current_time |-> NoTime, ok |-> FALSE, rejected |-> FALSE]

Fail(kind) == [RetInit EXCEPT !.kind = kind]

\* a get_balance without its except clause: the exception reaches the caller
CaughtButBalance(op, e) ==
  IF op = "balance" THEN [RetInit EXCEPT !.kind = e, !.raised = TRUE] ELSE Fail(e)

\* the except Exception clause that closes each method of the application server:
\* exception e, raised anywhere in method op, is returned as (False, text of e)
Caught(op, e) == Fail(e)

InitStore ==
  /\ now = 0
  /\ sessions = <<>>
  /\ balances = InitBalances
  /\ transfers = <<>>
  /\ recent_transfers = EmptyMap
  /\ dbShared = {}
  /\ dbReserved = NoId
  /\ pc = [p \in Procs |-> "idle"]
  /\ loc = [p \in Procs |-> LocInit]
  /\ ret = [p \in Procs |-> RetInit]
  /\ last = [p \in Procs |-> LastInit]

\* "reliable": the database server answers every call, now and later
Init == InitStore /\ opsLeft = MaxOps /\ store = "reliable"

InitDeep == InitStore /\ opsLeft = MaxDeepOps /\ store = "reliable"

\* "up": the database server answers, and may stop answering between two calls
InitFaults == InitStore /\ opsLeft = MaxOps /\ store = "up"

\* a request of caller p ends with result r; its locals stay until the caller
\* takes the result
Finish(p, r) ==
  /\ pc' = [pc EXCEPT ![p] = "done"]
  /\ ret' = [ret EXCEPT ![p] = r]
  /\ loc' = loc

\* a request of caller p that returns from its first step: l holds its arguments
\* and what it had resolved by then
FinishAt(p, r, l) ==
  /\ pc' = [pc EXCEPT ![p] = "done"]
  /\ ret' = [ret EXCEPT ![p] = r]
  /\ loc' = [loc EXCEPT ![p] = l]

\* the same, for a submit_transfer. What a caller has seen of its submissions is
\* kept in last: the key and the clock reading of its latest submission that passed
\* the guard, whether that one succeeded, and whether the same submission was
\* rejected as a duplicate since; any other submission starts the record afresh
FinishSubmit(p, r) ==
  /\ Finish(p, r)
  /\ last' = [last EXCEPT ![p] =
       IF loc[p].current_time # NoTime
         THEN [key |-> TransferKey(loc[p].user_id, loc[p].recipient_account_id,
                                   loc[p].amount, loc[p].reference),
               current_time |-> loc[p].current_time, ok |-> r.ok, rejected |-> FALSE]
       ELSE IF r.kind = "Duplicate transfer detected"
                 /\ last[p].key = TransferKey(loc[p].user_id, loc[p].recipient_account_id,
                                              loc[p].amount, loc[p].reference)
         THEN [last[p] EXCEPT !.rejected = TRUE]
       ELSE LastInit]

\* the caller takes the result; the request's locals are gone
Return(p) ==
  /\ pc[p] = "done"
  /\ pc' = [pc EXCEPT ![p] = "idle"]
  /\ loc' = [loc EXCEPT ![p] = LocInit]
  /\ ret' = [ret EXCEPT ![p] = RetInit]
  /\ UNCHANGED <<store, now, sessions, balances, transfers, recent_transfers, dbShared,
                 dbReserved, last, opsLeft>>

\* a session still honoured at the second it expires
validate_sessionInclusive(token) ==
  IF token \in 1..Len(sessions) /\ now <= sessions[token].expires_at
    THEN sessions[token].user_id
    ELSE NoId

\* BankDatabaseServer.validate_session: the user of a live session, NoId otherwise
validate_session(token) ==
  IF token \in 1..Len(sessions) /\ now < sessions[token].expires_at
    THEN sessions[token].user_id
    ELSE NoId

Tokens == (1..Len(sessions)) \cup {BogusToken}

\* one more state-changing request or tick, within the bound
Spend == opsLeft > 0 /\ opsLeft' = opsLeft - 1

\* a finished request hands its result to its caller before anything else happens
NoneDone == \A q \in Procs : pc[q] # "done"

\* time passes
Tick(d) ==
  /\ NoneDone
  /\ Spend
  /\ now' = now + d
  /\ UNCHANGED <<sessions, balances, transfers, recent_transfers, dbShared, dbReserved,
                 pc, loc, ret, last, store>>

\* the database server is not known to be out of reach
Reachable == store # "down"

\* no connection holds a lock: an autocommit write goes through at once
DbFree == dbReserved = NoId /\ dbShared = {}

\* a login that ends the user's earlier sessions
LoginSingleSession(p, username, password) ==
  /\ NoneDone
  /\ pc[p] = "idle"
  /\ Reachable
  /\ DbFree
  /\ LET l == [LocInit EXCEPT !.op = "login", !.username = username,
                                  !.password = password]
     IN IF username \notin Usernames
          THEN /\ FinishAt(p, Fail("Invalid username or password"), l)
               /\ UNCHANGED <<sessions, opsLeft>>
        ELSE IF Users[username].password_hash # Sha256(password)
          THEN /\ FinishAt(p, Fail("Invalid username or password"), l)
               /\ UNCHANGED <<sessions, opsLeft>>
        ELSE /\ Spend
             /\ sessions' = Append(
                  [tok \in DOMAIN sessions |->
                     IF sessions[tok].user_id = Users[username].user_id
                          /\ sessions[tok].expires_at > now
                       THEN [sessions[tok] EXCEPT !.expires_at = now]
                       ELSE sessions[tok]],
                  [user_id |-> Users[username].user_id,
                   expires_at |-> now + TOKEN_EXPIRATION_SECONDS])
             /\ FinishAt(p, [RetInit EXCEPT !.ok = TRUE, !.kind = "token",
                                            !.token = Len(sessions) + 1],
                         [l EXCEPT !.user_id = Users[username].user_id])
  /\ UNCHANGED <<store, now, balances, transfers, recent_transfers, dbShared, dbReserved,
                 last>>

\* BankApplicationServer.login
Login(p, username, password) ==
  /\ NoneDone
  /\ pc[p] = "idle"
  /\ Reachable
  /\ DbFree
  /\ LET l == [LocInit EXCEPT !.op = "login", !.username = username,
                                  !.password = password]
     IN IF username \notin Usernames
          THEN /\ FinishAt(p, Fail("Invalid username or password"), l)
               /\ UNCHANGED <<sessions, opsLeft>>
        ELSE IF Users[username].password_hash # Sha256(password)
          THEN /\ FinishAt(p, Fail("Invalid username or password"), l)
               /\ UNCHANGED <<sessions, opsLeft>>
        ELSE /\ Spend
             /\ sessions' = Append(sessions,
                  [user_id |-> Users[username].user_id,
                   expires_at |-> now + TOKEN_EXPIRATION_SECONDS])
             /\ FinishAt(p, [RetInit EXCEPT !.ok = TRUE, !.kind = "token",
                                            !.token = Len(sessions) + 1],
                         [l EXCEPT !.user_id = Users[username].user_id])
  /\ UNCHANGED <<store, now, balances, transfers, recent_transfers, dbShared, dbReserved,
                 last>>

\* a get_balance that renews the session it resolves (sliding expiration)
GetBalanceSliding(p, token) ==
  /\ NoneDone
  /\ pc[p] = "idle"
  /\ Reachable
  /\ LET user_id == validate_session(token)
         account == AccountOfUser(user_id)
         l == [LocInit EXCEPT !.op = "balance", !.token = token, !.user_id = user_id]
     IN IF user_id = NoId
          THEN /\ FinishAt(p, Caught("balance", "Authentication failed"), l)
               /\ UNCHANGED sessions
        ELSE /\ sessions' = [sessions EXCEPT
                               ![token].expires_at = now + TOKEN_EXPIRATION_SECONDS]
             /\ IF account = NoId THEN FinishAt(p, Fail("Account not found"), l)
                ELSE FinishAt(p, [RetInit EXCEPT !.ok = TRUE, !.kind = "balance",
                                                 !.balance = balances[account]], l)
  /\ UNCHANGED <<store, now, balances, transfers, recent_transfers, dbShared,
                 dbReserved, last, opsLeft>>

\* BankApplicationServer.get_balance
GetBalance(p, token) ==
  /\ NoneDone
  /\ pc[p] = "idle"
  /\ Reachable
  /\ LET user_id == validate_session(token)
         account == AccountOfUser(user_id)
         l == [LocInit EXCEPT !.op = "balance", !.token = token, !.user_id = user_id]
     IN IF user_id = NoId THEN FinishAt(p, Caught("balance", "Authentication failed"), l)
        ELSE IF account = NoId THEN FinishAt(p, Fail("Account not found"), l)
        ELSE FinishAt(p, [RetInit EXCEPT !.ok = TRUE, !.kind = "balance",
                                         !.balance = balances[account]], l)
  /\ UNCHANGED <<store, now, sessions, balances, transfers, recent_transfers, dbShared,
                 dbReserved, last, opsLeft>>

\* a get_transfer_status that looks the transfer up without resolving the token
GetTransferStatusNoAuth(p, token, transfer_id) ==
  /\ NoneDone
  /\ pc[p] = "idle"
  /\ Reachable
  /\ LET l == [LocInit EXCEPT !.op = "status", !.token = token,
                              !.transfer_id = transfer_id]
     IN IF transfer_id \notin 1..Len(transfers)
          THEN FinishAt(p, Fail("Transfer not found"), l)
        ELSE LET t == transfers[transfer_id]
             IN FinishAt(p, [RetInit EXCEPT !.ok = TRUE, !.kind = "transfer",
                               !.transfer_id = transfer_id, !.amount = t.amount,
                               !.fee = t.fee, !.status = t.status,
                               !.reference = t.reference,
                               !.from_account_id = t.from_account_id,
                               !.to_account_id = t.to_account_id], l)
  /\ UNCHANGED <<store, now, sessions, balances, transfers, recent_transfers, dbShared,
                 dbReserved, last, opsLeft>>

\* a get_transfer_status that shows a caller the transfers of its own account only
GetTransferStatusOwnOnly(p, token, transfer_id) ==
  /\ NoneDone
  /\ pc[p] = "idle"
  /\ Reachable
  /\ LET user_id == validate_session(token)
         l == [LocInit EXCEPT !.op = "status", !.token = token, !.user_id = user_id,
                              !.transfer_id = transfer_id]
     IN IF user_id = NoId THEN FinishAt(p, Caught("status", "Authentication failed"), l)
        ELSE IF transfer_id \notin 1..Len(transfers)
          THEN FinishAt(p, Fail("Transfer not found"), l)
        ELSE IF AccountOfUser(user_id) \notin {transfers[transfer_id].from_account_id,
                                               transfers[transfer_id].to_account_id}
          THEN FinishAt(p, Fail("Transfer not found"), l)
        ELSE LET t == transfers[transfer_id]
             IN FinishAt(p, [RetInit EXCEPT !.ok = TRUE, !.kind = "transfer",
                               !.transfer_id = transfer_id, !.amount = t.amount,
                               !.fee = t.fee, !.status = t.status,
                               !.reference = t.reference,
                               !.from_account_id = t.from_account_id,
                               !.to_account_id = t.to_account_id], l)
  /\ UNCHANGED <<store, now, sessions, balances, transfers, recent_transfers, dbShared,
                 dbReserved, last, opsLeft>>

\* BankApplicationServer.get_transfer_status
GetTransferStatus(p, token, transfer_id) ==
  /\ NoneDone
  /\ pc[p] = "idle"
  /\ Reachable
  /\ LET user_id == validate_session(token)
         l == [LocInit EXCEPT !.op = "status", !.token = token, !.user_id = user_id,
                              !.transfer_id = transfer_id]
     IN IF user_id = NoId THEN FinishAt(p, Caught("status", "Authentication failed"), l)
        ELSE IF transfer_id \notin 1..Len(transfers)
          THEN FinishAt(p, Fail("Transfer not found"), l)
        ELSE LET t == transfers[transfer_id]
             IN FinishAt(p, [RetInit EXCEPT !.ok = TRUE, !.kind = "transfer",
                               !.transfer_id = transfer_id, !.amount = t.amount,
                               !.fee = t.fee, !.status = t.status,
                               !.reference = t.reference,
                               !.from_account_id = t.from_account_id,
                               !.to_account_id = t.to_account_id], l)
  /\ UNCHANGED <<store, now, sessions, balances, transfers, recent_transfers, dbShared,
                 dbReserved, last, opsLeft>>

\* ORDER BY created_at DESC: the order of the rows of sequence s. created_at is
\* CURRENT_TIMESTAMP, a whole second; SQL leaves the order of rows of one second open
NewestFirst(s) ==
  \A i, j \in DOMAIN s : i < j => transfers[s[i]].created_at >= transfers[s[j]].created_at

\* LIMIT ?: the first limit rows, every row when limit is negative
Limit(s, limit) == IF limit < 0 \/ limit >= Len(s) THEN s ELSE SubSeq(s, 1, limit)

\* BankDatabaseServer.get_user_transactions: the ids of the transfers that
\* account_id sent or received, in each order the query may return them
get_user_transactions(account_id, limit) ==
  LET rows == {id \in 1..Len(transfers) :
                 \/ transfers[id].from_account_id = account_id
                 \/ transfers[id].to_account_id = account_id}
      orders == {s \in [1..Cardinality(rows) -> rows] :
                   /\ \A i, j \in DOMAIN s : i # j => s[i] # s[j]
                   /\ NewestFirst(s)}
  IN {Limit(s, limit) : s \in orders}

\* BankApplicationServer.get_transaction_history
GetTransactionHistory(p, token, limit) ==
  /\ NoneDone
  /\ pc[p] = "idle"
  /\ Reachable
  /\ LET user_id == validate_session(token)
         account == AccountOfUser(user_id)
         l == [LocInit EXCEPT !.op = "history", !.token = token, !.user_id = user_id,
                              !.limit = limit]
     IN IF user_id = NoId THEN FinishAt(p, Caught("history", "Authentication failed"), l)
        ELSE IF account = NoId THEN FinishAt(p, Fail("Account not found"), l)
        ELSE \E transactions \in get_user_transactions(account, limit) :
               FinishAt(p, [RetInit EXCEPT !.ok = TRUE, !.kind = "history",
                                           !.history = transactions], l)
  /\ UNCHANGED <<store, now, sessions, balances, transfers, recent_transfers, dbShared,
                 dbReserved, last, opsLeft>>

\* a limit that refuses the 200th character
ReferenceTooLongAt200(reference) == reference >= MaxReferenceLen

\* reference and len(reference) > 200, the reference given by its length
ReferenceTooLong(reference) == reference # 0 /\ reference > MaxReferenceLen

\* submit_transfer, from the call to the rounding of the amount
SubmitTransfer(p, token, recipient_account_id, amount, reference) ==
  /\ NoneDone
  /\ pc[p] = "idle"
  /\ Reachable
  /\ LET user_id == validate_session(token)
         sender == AccountOfUser(user_id)
         failure ==
           IF user_id = NoId THEN "Authentication failed"
           ELSE IF sender = NoId THEN "Sender account not found"
           ELSE IF amount <= 0 THEN "Transfer amount must be positive"
           ELSE IF ReferenceTooLong(reference) THEN "Reference message too long"
           ELSE ""
         l == [LocInit EXCEPT !.op = "submit", !.token = token, !.user_id = user_id,
                 !.sender_account_id = sender,
                 !.recipient_account_id = recipient_account_id,
                 !.amount = Round2(amount), !.reference = reference,
                 !.balance = IF sender = NoId THEN 0 ELSE balances[sender]]
     IN IF failure # ""
          THEN /\ FinishAt(p, IF user_id = NoId THEN Caught("submit", failure)
                                                   ELSE Fail(failure), l)
               /\ last' = [last EXCEPT ![p] = LastInit]
               /\ UNCHANGED opsLeft
        ELSE /\ Spend
             /\ pc' = [pc EXCEPT ![p] = "guard"]
             /\ loc' = [loc EXCEPT ![p] = l]
             /\ UNCHANGED <<ret, last>>
  /\ UNCHANGED <<store, now, sessions, balances, transfers, recent_transfers, dbShared,
                 dbReserved>>

LocKey(p) ==
  TransferKey(loc[p].user_id, loc[p].recipient_account_id, loc[p].amount, loc[p].reference)

\* the row create_transfer inserts for the request of caller p
NewTransfer(p) ==
  [from_account_id |-> loc[p].sender_account_id,
   to_account_id |-> loc[p].recipient_account_id,
   amount |-> loc[p].amount, fee |-> loc[p].fee, status |-> "PENDING",
   reference |-> [len |-> loc[p].reference, err |-> ""],
   created_at |-> IF loc[p].created_at = NoTime THEN now ELSE loc[p].created_at,
   completed |-> FALSE]

\* a guard that persists the rejected duplicate as a FAILED transfer
GuardCheckLogsDuplicate(p) ==
  /\ NoneDone
  /\ pc[p] = "guard"
  /\ IF IsDuplicate(recent_transfers, LocKey(p), now)
       THEN /\ FinishSubmit(p, Fail("Duplicate transfer detected"))
            /\ transfers' = Append(transfers, [NewTransfer(p) EXCEPT !.status = "FAILED"])
       ELSE /\ pc' = [pc EXCEPT ![p] = "record"]
            /\ loc' = [loc EXCEPT ![p].current_time = now]
            /\ UNCHANGED <<ret, last, transfers>>
  /\ UNCHANGED <<store, now, sessions, balances, recent_transfers, dbShared,
                 dbReserved, opsLeft>>

\* a guard that restarts the window of a key when it rejects a duplicate
GuardCheckRefreshes(p) ==
  /\ NoneDone
  /\ pc[p] = "guard"
  /\ IF IsDuplicate(recent_transfers, LocKey(p), now)
       THEN /\ FinishSubmit(p, Fail("Duplicate transfer detected"))
            /\ recent_transfers' = RecordKey(recent_transfers, LocKey(p), now)
       ELSE /\ pc' = [pc EXCEPT ![p] = "record"]
            /\ loc' = [loc EXCEPT ![p].current_time = now]
            /\ UNCHANGED <<ret, last, recent_transfers>>
  /\ UNCHANGED <<store, now, sessions, balances, transfers, dbShared, dbReserved, opsLeft>>

\* submit_transfer: the clock is read and the key is looked up
GuardCheck(p) ==
  /\ NoneDone
  /\ pc[p] = "guard"
  /\ IF IsDuplicate(recent_transfers, LocKey(p), now)
       THEN /\ FinishSubmit(p, Fail("Duplicate transfer detected"))
       ELSE /\ pc' = [pc EXCEPT ![p] = "record"]
            /\ loc' = [loc EXCEPT ![p].current_time = now]
            /\ UNCHANGED <<ret, last>>
  /\ UNCHANGED <<store, now, sessions, balances, transfers, recent_transfers, dbShared,
                 dbReserved, opsLeft>>

\* submit_transfer: the key is recorded and the swept map is computed
GuardRecord(p) ==
  /\ NoneDone
  /\ pc[p] = "record"
  /\ recent_transfers' = RecordKey(recent_transfers, LocKey(p), loc[p].current_time)
  /\ loc' = [loc EXCEPT ![p].swept = Sweep(recent_transfers', loc[p].current_time)]
  /\ pc' = [pc EXCEPT ![p] = "assign"]
  /\ UNCHANGED <<store, now, sessions, balances, transfers, dbShared, dbReserved, ret, last,
                 opsLeft>>

\* a submit_transfer that creates the PENDING row before it checks the recipient
GuardAssignCreatesFirst(p) ==
  /\ NoneDone
  /\ pc[p] = "assign"
  /\ Reachable
  /\ recent_transfers' = loc[p].swept
  /\ transfers' = Append(transfers, NewTransfer(p))
  /\ \E fee \in calculate_fee(loc[p].amount) :
        IF loc[p].recipient_account_id \notin AccountIds
          THEN FinishSubmit(p, Fail("Recipient account not found"))
        ELSE IF loc[p].sender_account_id = loc[p].recipient_account_id
          THEN FinishSubmit(p, Fail("Cannot transfer to your own account"))
        ELSE IF loc[p].balance < loc[p].amount + fee
          THEN FinishSubmit(p, Fail("Insufficient balance. Required"))
        ELSE /\ pc' = [pc EXCEPT ![p] = "settle"]
             /\ loc' = [loc EXCEPT ![p].fee = fee, ![p].transfer_id = Len(transfers) + 1]
             /\ UNCHANGED <<ret, last>>
  /\ UNCHANGED <<store, now, sessions, balances, dbShared, dbReserved, opsLeft>>

\* a submit_transfer that does not compare the two accounts
GuardAssignNoSelfCheck(p) ==
  /\ NoneDone
  /\ pc[p] = "assign"
  /\ Reachable
  /\ recent_transfers' = loc[p].swept
  /\ \E fee \in calculate_fee(loc[p].amount) :
        IF loc[p].recipient_account_id \notin AccountIds
          THEN FinishSubmit(p, Fail("Recipient account not found"))
        ELSE IF loc[p].balance < loc[p].amount + fee
          THEN FinishSubmit(p, Fail("Insufficient balance. Required"))
        ELSE /\ pc' = [pc EXCEPT ![p] = "create"]
             /\ loc' = [loc EXCEPT ![p].fee = fee]
             /\ UNCHANGED <<ret, last>>
  /\ UNCHANGED <<store, now, sessions, balances, transfers, dbShared, dbReserved,
                 opsLeft>>

\* submit_transfer: the swept map replaces recent_transfers; recipient, self-transfer
\* and the balance snapshot are checked and the fee is computed
GuardAssign(p) ==
  /\ NoneDone
  /\ pc[p] = "assign"
  /\ Reachable
  /\ recent_transfers' = loc[p].swept
  /\ \E fee \in calculate_fee(loc[p].amount) :
        IF loc[p].recipient_account_id \notin AccountIds
          THEN FinishSubmit(p, Fail("Recipient account not found"))
        ELSE IF loc[p].sender_account_id = loc[p].recipient_account_id
          THEN FinishSubmit(p, Fail("Cannot transfer to your own account"))
        ELSE IF loc[p].balance < loc[p].amount + fee
          THEN FinishSubmit(p, Fail("Insufficient balance. Required"))
        ELSE /\ pc' = [pc EXCEPT ![p] = "create"]
             /\ loc' = [loc EXCEPT ![p].fee = fee]
             /\ UNCHANGED <<ret, last>>
  /\ UNCHANGED <<store, now, sessions, balances, transfers, dbShared, dbReserved,
                 opsLeft>>

\* ------------------------------------------------------- the store's locks
\* a store that commits a writer while others still read
CanCommitAlways(p) == TRUE

\* SQLite grants RESERVED to one connection at a time
CanReserve(p) == dbReserved = NoId \/ dbReserved = p
\* a commit needs EXCLUSIVE: no other connection may hold SHARED
CanCommit(p) == dbShared \ {p} = {}

\* a create_transfer that hands out an id and persists nothing
CreateTransferNotPersisted(p) ==
  /\ NoneDone
  /\ pc[p] = "create"
  /\ Reachable
  /\ loc' = [loc EXCEPT ![p].transfer_id = Len(transfers) + 1, ![p].created_at = now]
  /\ pc' = [pc EXCEPT ![p] = "settle"]
  /\ UNCHANGED <<store, now, sessions, balances, transfers, recent_transfers, dbShared,
                 dbReserved, ret, last, opsLeft>>

\* BankDatabaseServer.create_transfer: the INSERT, committed at once when no reader
\* is in the way
CreateTransfer(p) ==
  /\ NoneDone
  /\ pc[p] = "create"
  /\ Reachable
  /\ CanReserve(p)
  /\ loc' = [loc EXCEPT ![p].transfer_id = Len(transfers) + 1, ![p].created_at = now]
  /\ IF CanCommit(p)
       THEN /\ transfers' = Append(transfers, NewTransfer(p))
            /\ pc' = [pc EXCEPT ![p] = "settle"]
            /\ UNCHANGED dbReserved
       ELSE /\ dbReserved' = p
            /\ pc' = [pc EXCEPT ![p] = "create_commit"]
            /\ UNCHANGED transfers
  /\ UNCHANGED <<store, now, sessions, balances, recent_transfers, dbShared, ret, last,
                 opsLeft>>

\* create_transfer: the commit of the INSERT once the readers are gone
CreateCommit(p) ==
  /\ NoneDone
  /\ pc[p] = "create_commit"
  /\ CanCommit(p)
  /\ transfers' = Append(transfers, NewTransfer(p))
  /\ dbReserved' = NoId
  /\ pc' = [pc EXCEPT ![p] = "settle"]
  /\ UNCHANGED <<store, now, sessions, balances, recent_transfers, dbShared, loc, ret, last,
                 opsLeft>>

\* create_transfer: the lock is not granted within the busy timeout; the exception
\* reaches submit_transfer's handler
CreateBusy(p) ==
  /\ NoneDone
  /\ \/ pc[p] = "create" /\ ~CanReserve(p)
     \/ pc[p] = "create_commit" /\ ~CanCommit(p)
  /\ dbReserved' = IF dbReserved = p THEN NoId ELSE dbReserved
  /\ FinishSubmit(p, Caught("submit", "Failed to create transfer"))
  /\ UNCHANGED <<store, now, sessions, balances, transfers, recent_transfers, dbShared,
                 opsLeft>>

\* a direct call of BankDatabaseServer.settle_transfer_transaction
SettleCall(p, transfer_id) ==
  /\ NoneDone
  /\ pc[p] = "idle"
  /\ Reachable
  /\ Spend
  /\ pc' = [pc EXCEPT ![p] = "settle"]
  /\ loc' = [loc EXCEPT ![p] = [LocInit EXCEPT !.op = "settle", !.transfer_id = transfer_id]]
  /\ UNCHANGED <<store, now, sessions, balances, transfers, recent_transfers, dbShared,
                 dbReserved, ret, last>>

\* whether the log_operation call that follows settlement raises in the application
\* server: the database server may have gone out of reach since it answered the
\* settlement. log_operation's own failure to insert is swallowed there (it returns
\* None), which the application server cannot tell from a written entry.
AuditRaises ==
  IF store = "reliable" THEN {FALSE}
  ELSE IF store = "up" THEN {FALSE, TRUE}
  ELSE {TRUE}

\* a submit_transfer that does not test what settlement returned
SettleReturnUntested(p, ok, error) ==
  IF loc[p].op = "submit"
    THEN \E raises \in AuditRaises :
           /\ store' = IF raises THEN "down" ELSE store
           /\ FinishSubmit(p,
                IF raises THEN Caught("submit", "Connection lost")
                ELSE [RetInit EXCEPT !.ok = TRUE, !.kind = "completed",
                         !.transfer_id = loc[p].transfer_id, !.amount = loc[p].amount,
                         !.fee = loc[p].fee, !.status = "COMPLETED"])
    ELSE /\ Finish(p, [RetInit EXCEPT !.ok = ok, !.kind = IF ok THEN "settled" ELSE error])
         /\ UNCHANGED <<last, store>>

\* what submit_transfer returns after settlement, its log_operation call included, or
\* what the direct caller of settle_transfer_transaction gets
SettleReturn(p, ok, error) ==
  IF loc[p].op = "submit"
    THEN \E raises \in AuditRaises :
           /\ store' = IF raises THEN "down" ELSE store
           /\ FinishSubmit(p,
                IF raises THEN Caught("submit", "Connection lost")
                ELSE IF ok THEN [RetInit EXCEPT !.ok = TRUE, !.kind = "completed",
                         !.transfer_id = loc[p].transfer_id, !.amount = loc[p].amount,
                         !.fee = loc[p].fee, !.status = "COMPLETED"]
                ELSE Fail(error))
    ELSE /\ Finish(p, [RetInit EXCEPT !.ok = ok, !.kind = IF ok THEN "settled" ELSE error])
         /\ UNCHANGED <<last, store>>

\* a settlement that does not look at the status
SettleableAlways(t) == TRUE

\* a settlement that refuses FAILED transfers only
SettleableUnlessFailed(t) == t.status # "FAILED"

\* settle_transfer_transaction: only a PENDING transfer is settled
Settleable(t) == t.status = "PENDING"

\* settle_transfer_transaction: BEGIN and the three SELECTs, under the SHARED lock
SettleRead(p) ==
  /\ NoneDone
  /\ pc[p] = "settle"
  /\ Reachable
  /\ LET id == loc[p].transfer_id
     IN IF id \notin 1..Len(transfers)
          THEN /\ SettleReturn(p, FALSE, "Transfer record not found")
               /\ UNCHANGED dbShared
        ELSE IF ~Settleable(transfers[id])
          THEN /\ SettleReturn(p, FALSE, "Transfer is already " \o transfers[id].status)
               /\ UNCHANGED dbShared
        ELSE LET t == transfers[id]
             IN /\ dbShared' = dbShared \cup {p}
                /\ loc' = [loc EXCEPT ![p].tx_from = t.from_account_id,
                             ![p].tx_to = t.to_account_id,
                             ![p].tx_amount = t.amount, ![p].tx_fee = t.fee,
                             ![p].sender_balance =
                                IF t.from_account_id \in AccountIds
                                  THEN balances[t.from_account_id] ELSE 0,
                             ![p].recipient_balance =
                                IF t.to_account_id \in AccountIds
                                  THEN balances[t.to_account_id] ELSE 0]
                /\ pc' = [pc EXCEPT ![p] = "settle_write"]
                /\ UNCHANGED <<ret, last, store>>
  /\ UNCHANGED <<now, sessions, balances, transfers, recent_transfers, dbReserved,
                 opsLeft>>

\* settle_transfer_transaction: the exception handler (rollback, close)
SettleError(p) ==
  /\ dbShared' = dbShared \ {p}
  /\ dbReserved' = IF dbReserved = p THEN NoId ELSE dbReserved
  /\ SettleReturn(p, FALSE, "Transaction error")
  /\ UNCHANGED <<now, sessions, balances, transfers, recent_transfers,
                 opsLeft>>

\* which branch the rows read by SettleRead select
SettleOutcome(p) ==
  IF loc[p].tx_from \notin AccountIds THEN "Sender missing"
  ELSE IF InsufficientFunds(loc[p].sender_balance, loc[p].tx_amount + loc[p].tx_fee)
    THEN "Insufficient funds"
  ELSE IF loc[p].tx_to \notin AccountIds THEN "Recipient missing"
  ELSE "ok"

\* a settlement that charges the fee of a transfer it marks FAILED
CommitChargesFailed(p) ==
  /\ dbShared' = dbShared \ {p}
  /\ dbReserved' = NoId
  /\ LET id == loc[p].transfer_id
         outcome == SettleOutcome(p)
     IN IF outcome = "ok"
          THEN /\ balances' =
                    [[balances EXCEPT ![loc[p].tx_from] =
                        NewSenderBalance(loc[p].sender_balance, loc[p].tx_amount,
                                         loc[p].tx_fee)]
                       EXCEPT ![loc[p].tx_to] =
                        NewRecipientBalance(loc[p].recipient_balance, loc[p].tx_amount)]
               /\ transfers' = [transfers EXCEPT ![id].status = "COMPLETED",
                                                 ![id].completed = TRUE]
               /\ SettleReturn(p, TRUE, "")
          ELSE /\ transfers' = [transfers EXCEPT ![id].status = "FAILED",
                                                 ![id].reference.err = outcome,
                                                 ![id].completed = TRUE]
               /\ balances' =
                    IF loc[p].tx_from \in AccountIds
                      THEN [balances EXCEPT ![loc[p].tx_from] = @ - loc[p].tx_fee]
                      ELSE balances
               /\ SettleReturn(p, FALSE,
                    IF outcome = "Insufficient funds" THEN "Insufficient balance. Available"
                    ELSE IF outcome = "Sender missing" THEN "Sender account not found"
                    ELSE "Recipient account not found")
  /\ UNCHANGED <<now, sessions, recent_transfers, opsLeft>>

\* settle_transfer_transaction: conn.commit() makes the UPDATEs visible and drops the locks
Commit(p) ==
  /\ dbShared' = dbShared \ {p}
  /\ dbReserved' = NoId
  /\ LET id == loc[p].transfer_id
         outcome == SettleOutcome(p)
     IN IF outcome = "ok"
          THEN /\ balances' =
                    [[balances EXCEPT ![loc[p].tx_from] =
                        NewSenderBalance(loc[p].sender_balance, loc[p].tx_amount,
                                         loc[p].tx_fee)]
                       EXCEPT ![loc[p].tx_to] =
                        NewRecipientBalance(loc[p].recipient_balance, loc[p].tx_amount)]
               /\ transfers' = [transfers EXCEPT ![id].status = "COMPLETED",
                                                 ![id].completed = TRUE]
               /\ SettleReturn(p, TRUE, "")
          ELSE /\ transfers' = [transfers EXCEPT ![id].status = "FAILED",
                                                 ![id].reference.err = outcome,
                                                 ![id].completed = TRUE]
               /\ UNCHANGED balances
               /\ SettleReturn(p, FALSE,
                    IF outcome = "Insufficient funds" THEN "Insufficient balance. Available"
                    ELSE IF outcome = "Sender missing" THEN "Sender account not found"
                    ELSE "Recipient account not found")
  /\ UNCHANGED <<now, sessions, recent_transfers, opsLeft>>

\* settle_transfer_transaction: the first UPDATE asks for the RESERVED lock; a
\* connection that holds SHARED is refused at once when another holds RESERVED.
\* With no other reader the commit follows at once.
SettleWrite(p) ==
  /\ NoneDone
  /\ pc[p] = "settle_write"
  /\ IF ~CanReserve(p) THEN SettleError(p)
     ELSE IF CanCommit(p) THEN Commit(p)
     ELSE /\ dbReserved' = p
          /\ pc' = [pc EXCEPT ![p] = "settle_commit"]
          /\ UNCHANGED <<store, now, sessions, balances, transfers, recent_transfers,
                         dbShared, loc, ret, last, opsLeft>>

\* settle_transfer_transaction: the commit, once the other readers are gone
SettleCommit(p) ==
  /\ NoneDone
  /\ pc[p] = "settle_commit"
  /\ CanCommit(p)
  /\ Commit(p)

\* settle_transfer_transaction: the commit is not granted the EXCLUSIVE lock within
\* the busy timeout
SettleCommitTimeout(p) ==
  /\ NoneDone
  /\ pc[p] = "settle_commit"
  /\ ~CanCommit(p)
  /\ SettleError(p)

\* one step of the server, the submissions drawn from args; a caller without a live
\* session is refused whatever it submits, so it submits one of them
Serve(args) ==
  \/ \E d \in TickSteps : Tick(d)
  \/ \E p \in Procs, a \in LoginArgs : Login(p, a[1], a[2])
  \/ \E p \in Procs, tok \in Tokens : GetBalance(p, tok)
  \/ \E p \in Procs, tok \in Tokens, id \in 1..(Len(transfers) + 1) :
        GetTransferStatus(p, tok, id)
  \/ \E p \in Procs, tok \in Tokens, limit \in Limits :
        /\ validate_session(tok) # NoId \/ limit = DefaultLimit
        /\ GetTransactionHistory(p, tok, limit)
  \/ \E p \in Procs, tok \in Tokens, a \in args :
        /\ validate_session(tok) # NoId \/ a = CHOOSE x \in args : TRUE
        /\ SubmitTransfer(p, tok, a[1], a[2], a[3])
  \/ \E p \in Procs : Return(p)
  \/ \E p \in Procs : GuardCheck(p)
  \/ \E p \in Procs : GuardRecord(p)
  \/ \E p \in Procs : GuardAssign(p)
  \/ \E p \in Procs : CreateTransfer(p)
  \/ \E p \in Procs : CreateCommit(p)
  \/ \E p \in Procs : CreateBusy(p)
  \/ \E p \in Procs, id \in 1..(Len(transfers) + 1) : SettleCall(p, id)
  \/ \E p \in Procs : SettleRead(p)
  \/ \E p \in Procs : SettleWrite(p)
  \/ \E p \in Procs : SettleCommit(p)
  \/ \E p \in Procs : SettleCommitTimeout(p)

\* BankApplicationServer.calculate_fee, called by a client
CalculateFee(p, amount) ==
  /\ NoneDone
  /\ pc[p] = "idle"
  /\ \E fee \in calculate_fee(amount) :
        FinishAt(p, [RetInit EXCEPT !.ok = TRUE, !.kind = "fee", !.amount = amount,
                                    !.fee = fee],
                 [LocInit EXCEPT !.op = "fee", !.amount = amount])
  /\ UNCHANGED <<store, now, sessions, balances, transfers, recent_transfers, dbShared,
                 dbReserved, last, opsLeft>>

Next == Serve(SubmitArgs)

Spec == Init /\ [][Next]_vars

\* the same program, its callers submitting at the limits of validation
NextValidation == Serve(ValidationArgs)

SpecValidation == Init /\ [][NextValidation]_vars

\* the fee calculator alone, asked for the fee of each amount
NextFee ==
  \/ \E p \in Procs, amount \in FeeAmounts : CalculateFee(p, amount)
  \/ \E p \in Procs : Return(p)

SpecFee == Init /\ [][NextFee]_vars

\* the same program, with room for one more request
SpecDeep == InitDeep /\ [][Next]_vars

FaultOps == {"login", "balance", "submit", "status", "history"}

\* the database server is out of reach when caller p's request makes its next call to
\* it: connect_to_bdb at the head of a method, the recipient lookup, create_transfer
\* or settle_transfer_transaction. The exception ends the method in its except
\* clause; calls already being served are served to their end.
StoreUnreachable(p) ==
  /\ NoneDone
  /\ store # "reliable"
  /\ store' = "down"
  /\ IF pc[p] = "idle"
       THEN /\ \E op \in FaultOps :
                 /\ FinishAt(p, Caught(op, "Failed to connect to BDB server"),
                             [LocInit EXCEPT !.op = op])
                 /\ last' = IF op = "submit" THEN [last EXCEPT ![p] = LastInit] ELSE last
            /\ UNCHANGED recent_transfers
       ELSE /\ \/ pc[p] = "assign" /\ recent_transfers' = loc[p].swept
               \/ pc[p] \in {"create", "settle"} /\ UNCHANGED recent_transfers
            /\ IF loc[p].op = "submit"
                 THEN FinishSubmit(p, Caught("submit", "Connection lost"))
                 ELSE /\ Finish(p, Fail("Connection lost"))
                      /\ UNCHANGED last
  /\ UNCHANGED <<now, sessions, balances, transfers, dbShared, dbReserved, opsLeft>>

\* a direct call of BankDatabaseServer.create_transfer, made while no connection
\* holds a lock: the row is inserted as PENDING with no fee
CreateCall(p, from_account_id, to_account_id, amount) ==
  /\ NoneDone
  /\ pc[p] = "idle"
  /\ Reachable
  /\ DbFree
  /\ Spend
  /\ transfers' = Append(transfers,
       [from_account_id |-> from_account_id, to_account_id |-> to_account_id,
        amount |-> amount, fee |-> 0, status |-> "PENDING", reference |-> NoRef,
        created_at |-> now, completed |-> FALSE])
  /\ FinishAt(p, [RetInit EXCEPT !.ok = TRUE, !.kind = "created",
                                 !.transfer_id = Len(transfers) + 1],
              [LocInit EXCEPT !.op = "create", !.transfer_id = Len(transfers) + 1])
  /\ UNCHANGED <<store, now, sessions, balances, recent_transfers, dbShared, dbReserved,
                 last>>

InitSweep == InitStore /\ opsLeft = MaxSweepOps /\ store = "reliable"

\* john's submissions alone, with the clock advancing by less than the window
NextSweep ==
  \/ Tick(ShortStep)
  \/ \E p \in Procs : Login(p, "john", MOCK_USERS["john"].password)
  \/ \E p \in Procs, a \in SweepArgs : SubmitTransfer(p, 1, a[1], a[2], a[3])
  \/ \E p \in Procs : Return(p)
  \/ \E p \in Procs : GuardCheck(p)
  \/ \E p \in Procs : GuardRecord(p)
  \/ \E p \in Procs : GuardAssign(p)
  \/ \E p \in Procs : CreateTransfer(p)
  \/ \E p \in Procs : CreateCommit(p)
  \/ \E p \in Procs : CreateBusy(p)
  \/ \E p \in Procs : SettleRead(p)
  \/ \E p \in Procs : SettleWrite(p)
  \/ \E p \in Procs : SettleCommit(p)
  \/ \E p \in Procs : SettleCommitTimeout(p)

SpecSweep == InitSweep /\ [][NextSweep]_vars

\* submit_transfer from the rounding of the amount to the digest of the key, for a
\* caller whose token resolves to user_id
ComputeKey(p, user_id, recipient_account_id, amount, text) ==
  /\ pc[p] = "idle"
  /\ pc' = [pc EXCEPT ![p] = "key"]
  /\ loc' = [loc EXCEPT ![p] =
       [LocInit EXCEPT !.op = "submit", !.user_id = user_id,
          !.recipient_account_id = recipient_account_id, !.amount = Round2(amount),
          !.text = text,
          !.transfer_hash =
             Md5(transfer_key(user_id, recipient_account_id, Round2(amount), text))]]
  /\ UNCHANGED <<store, now, sessions, balances, transfers, recent_transfers, dbShared,
                 dbReserved, ret, last, opsLeft>>

\* the caller of a keyed submission is done with it
KeyReturn(p) ==
  /\ pc[p] = "key"
  /\ pc' = [pc EXCEPT ![p] = "idle"]
  /\ loc' = [loc EXCEPT ![p] = LocInit]
  /\ UNCHANGED <<store, now, sessions, balances, transfers, recent_transfers, dbShared,
                 dbReserved, ret, last, opsLeft>>

\* the keys of the callers' submissions alone
NextKey ==
  \/ \E p \in Procs, a \in KeyArgs : ComputeKey(p, a[1], a[2], a[3], a[4])
  \/ \E p \in Procs : KeyReturn(p)

SpecKey == Init /\ [][NextKey]_vars

\* the same program, its callers submitting fractions of a cent
NextTiny == Serve(TinyArgs)

SpecTiny == Init /\ [][NextTiny]_vars

\* the same program with both users logged in, sending to each other
NextSymmetric ==
  \/ Serve(SymmetricArgs)
  \/ \E p \in Procs : Login(p, "jane", MOCK_USERS["jane"].password)

SpecSymmetric == InitDeep /\ [][NextSymmetric]_vars

\* the same program, with clients that also insert transfers at the database server
NextDirect ==
  \/ Next
  \/ \E p \in Procs, a \in DirectArgs : CreateCall(p, a[1], a[2], a[3])

SpecDirect == Init /\ [][NextDirect]_vars

\* the same, with room for one more request
SpecDirectDeep == InitDeep /\ [][NextDirect]_vars

\* the same program beside a database server that may go out of reach
NextFaults ==
  \/ Next
  \/ \E p \in Procs : StoreUnreachable(p)

SpecFaults == InitFaults /\ [][NextFaults]_vars

TypeOK ==
  /\ \A a \in AccountIds : balances[a] \in Int
  /\ dbReserved \in Procs \cup {NoId}
  /\ dbShared \subseteq Procs

\* ------------------------------------------------------------------ claims
Ids == 1..Len(transfers)
Terminal == {"COMPLETED", "FAILED"}

\* caller p's step settles transfer id as COMPLETED
Completes(p, id) ==
  /\ pc[p] \in {"settle_write", "settle_commit"}
  /\ pc'[p] = "done"
  /\ loc[p].transfer_id = id
  /\ id \in Ids
  /\ transfers[id].status = "PENDING"
  /\ transfers'[id].status = "COMPLETED"

\* C1: when a settlement completes a transfer, the sender's balance becomes the
\* balance read inside the transaction minus amount and fee, the recipient's the
\* balance read plus amount, and the balances read are still the stored ones
C1_Conservation ==
  [][\A p \in Procs : \A id \in Ids :
       Completes(p, id) =>
         LET t == transfers[id]
         IN /\ balances[t.from_account_id] = loc[p].sender_balance
            /\ balances[t.to_account_id] = loc[p].recipient_balance
            /\ balances'[t.from_account_id] = loc[p].sender_balance - t.amount - t.fee
            /\ balances'[t.to_account_id] = loc[p].recipient_balance + t.amount]_vars

\* a transfer with a fee has been settled and reported as completed
C1_Witness ==
  \E p \in Procs :
    /\ pc[p] = "done"
    /\ ret[p].kind = "completed"
    /\ ret[p].fee > 0
    /\ transfers[ret[p].transfer_id].status = "COMPLETED"

\* C2: no account balance is ever negative, and get_balance returns none
C2_NonNegative ==
  /\ \A a \in AccountIds : balances[a] >= 0
  /\ \A p \in Procs : ret[p].kind = "balance" => ret[p].balance >= 0

\* two transfers of one sender that passed the balance snapshot together: one
\* completed, the other refused inside its settlement
C2_Witness ==
  \E i, j \in Ids :
    /\ transfers[i].from_account_id = transfers[j].from_account_id
    /\ transfers[i].status = "COMPLETED"
    /\ transfers[j].status = "FAILED"
    /\ transfers[j].reference.err = "Insufficient funds"

\* C3: a transfer is created PENDING, leaves PENDING only for COMPLETED or FAILED,
\* never changes once it has, and keeps its accounts, amount and fee
C3_StatusOnce ==
  [][/\ Len(transfers') >= Len(transfers)
     /\ \A id \in 1..Len(transfers') :
          IF id \in Ids
            THEN /\ transfers'[id].from_account_id = transfers[id].from_account_id
                 /\ transfers'[id].to_account_id = transfers[id].to_account_id
                 /\ transfers'[id].amount = transfers[id].amount
                 /\ transfers'[id].fee = transfers[id].fee
                 /\ transfers[id].status \in Terminal =>
                      transfers'[id].status = transfers[id].status
                 /\ transfers'[id].status \in Terminal \cup {"PENDING"}
            ELSE transfers'[id].status = "PENDING"]_vars

\* a settlement was asked again for a finished transfer and refused
C3_Witness ==
  \E p \in Procs :
    /\ pc[p] = "done"
    /\ loc[p].op = "settle"
    /\ ret[p].kind \in {"Transfer is already COMPLETED", "Transfer is already FAILED"}

RECURSIVE Sent(_, _)
\* amount + fee of the first n transfers that account a sent and that completed
Sent(a, n) ==
  IF n = 0 THEN 0
  ELSE Sent(a, n - 1) +
       (IF transfers[n].from_account_id = a /\ transfers[n].status = "COMPLETED"
          THEN transfers[n].amount + transfers[n].fee ELSE 0)

RECURSIVE Received(_, _)
\* amount of the first n transfers that account a received and that completed
Received(a, n) ==
  IF n = 0 THEN 0
  ELSE Received(a, n - 1) +
       (IF transfers[n].to_account_id = a /\ transfers[n].status = "COMPLETED"
          THEN transfers[n].amount ELSE 0)

AllReturned == \A p \in Procs : pc[p] = "idle"

\* C4: once every call has returned, each balance is the initial balance minus what
\* the account's completed transfers sent plus what they received
C4_NoLostUpdate ==
  AllReturned =>
    \A a \in AccountIds :
      balances[a] = InitBalances[a] - Sent(a, Len(transfers)) + Received(a, Len(transfers))

\* two settlements of one sender ran into each other: one completed, the other was
\* refused the lock and left its transfer behind
C4_Witness ==
  /\ AllReturned
  /\ \E i, j \in Ids :
       /\ transfers[i].from_account_id = transfers[j].from_account_id
       /\ transfers[i].status = "COMPLETED"
       /\ transfers[j].status = "PENDING"

\* caller p's submit_transfer has just returned
Returned(p) == pc[p] = "done" /\ loc[p].op = "submit"

\* C5: a submit_transfer whose settlement raised a transaction error returns with
\* its transfer in a terminal state
C5_ErrorIsTerminal ==
  \A p \in Procs :
    (Returned(p) /\ ret[p].kind = "Transaction error") =>
      /\ loc[p].transfer_id \in Ids
      /\ transfers[loc[p].transfer_id].status \in Terminal

FundsFailures == {"Insufficient balance. Required", "Insufficient balance. Available"}

\* C6: a submit_transfer refused for insufficient funds leaves a transfer record
\* that is FAILED and carries the reason in its reference
C6_FundsFailurePersisted ==
  \A p \in Procs :
    (Returned(p) /\ ret[p].kind \in FundsFailures) =>
      /\ loc[p].transfer_id \in Ids
      /\ transfers[loc[p].transfer_id].status = "FAILED"
      /\ transfers[loc[p].transfer_id].reference.err = "Insufficient funds"

\* C7: the result of a submit_transfer refused for insufficient funds carries the
\* id of its transfer record
C7_FailureCarriesId ==
  \A p \in Procs :
    (Returned(p) /\ ret[p].kind \in FundsFailures) =>
      /\ ret[p].transfer_id \in Ids
      /\ ret[p].transfer_id = loc[p].transfer_id

\* C8: a caller whose previous submission succeeded does not pass the guard with
\* the identical submission less than IDEMPOTENCY_WINDOW seconds later
C8_SecondIsDuplicate ==
  \A p \in Procs :
    (pc[p] = "record" /\ last[p].ok /\ last[p].key = LocKey(p)) =>
      loc[p].current_time - last[p].current_time >= IDEMPOTENCY_WINDOW

\* C9: a submit_transfer rejected as a duplicate has come no further than the
\* guard, has created no transfer, and neither of its steps changes a transfer
\* or a balance
C9_DuplicateFrame ==
  [][\A p \in Procs :
       /\ (pc[p] # "done" /\ pc'[p] = "done"
             /\ ret'[p].kind = "Duplicate transfer detected") =>
            /\ pc[p] = "guard"
            /\ loc'[p].transfer_id = NoId
            /\ transfers' = transfers
            /\ balances' = balances
       /\ (pc[p] = "idle" /\ pc'[p] = "guard") =>
            /\ transfers' = transfers
            /\ balances' = balances]_vars

\* an identical submission has been rejected while the first one's transfer exists
C9_Witness ==
  \E p \in Procs :
    /\ Returned(p)
    /\ ret[p].kind = "Duplicate transfer detected"
    /\ Len(transfers) > 0

PreSettlementFailures ==
  {"Transfer amount must be positive", "Reference message too long",
   "Recipient account not found", "Cannot transfer to your own account",
   "Sender account not found"}

\* the positions of submit_transfer before the transfer is created
PreSettlement == {"idle", "guard", "record", "assign"}

\* C10: a submit_transfer that fails before settlement returns a failure, has
\* created no transfer, and none of its steps changes a transfer or a balance
C10_PreSettlementFrame ==
  [][\A p \in Procs :
       (pc[p] \in PreSettlement /\ pc'[p] # pc[p]) =>
         /\ transfers' = transfers
         /\ balances' = balances
         /\ (pc'[p] = "done" /\ ret'[p].kind \in PreSettlementFailures) =>
              ~ret'[p].ok /\ loc'[p].transfer_id = NoId]_vars

\* an unknown recipient or a self-transfer has been refused after the guard
C10_Witness ==
  \E p \in Procs :
    /\ Returned(p)
    /\ ret[p].kind \in {"Recipient account not found", "Cannot transfer to your own account"}
    /\ DOMAIN recent_transfers # {}

\* caller p's request is a submit_transfer to the caller's own account
SelfTransfer(p) ==
  /\ loc[p].op = "submit"
  /\ loc[p].sender_account_id # NoId
  /\ loc[p].recipient_account_id = loc[p].sender_account_id

ValidationErrors ==
  {"Transfer amount must be positive", "Reference message too long",
   "Cannot transfer to your own account"}

C12_ReferenceBoundary ==
  [][\A p \in Procs :
       (pc[p] = "idle" /\ loc'[p].op = "submit" /\ loc'[p].sender_account_id # NoId
          /\ loc'[p].amount > 0) =>
         IF loc'[p].reference >= 201
           THEN /\ pc'[p] = "done"
                /\ ret'[p] = Fail("Reference message too long")
                /\ loc'[p].transfer_id = NoId
                /\ transfers' = transfers
           ELSE /\ pc'[p] = "guard"
                /\ ret'[p].kind # "Reference message too long"]_vars

\* a transfer with a reference of 200 characters has completed, and the store holds
\* no other transfer
C12_Witness ==
  \E p \in Procs :
    /\ Returned(p)
    /\ ret[p].kind = "completed"
    /\ loc[p].reference = 200
    /\ transfers[ret[p].transfer_id].status = "COMPLETED"
    /\ transfers[ret[p].transfer_id].reference.len = 200
    /\ Len(transfers) = 1

\* the operations that take a token
TokenOps == {"balance", "status", "history", "submit"}

\* C13: a token resolves, to its session's user, exactly when its session exists and
\* the clock is strictly before expires_at; otherwise the operation returns the
\* authentication failure; and a session that has expired stays expired
C13_TokenResolution ==
  [][/\ \A p \in Procs :
          (pc[p] = "idle" /\ loc'[p].op \in TokenOps) =>
            LET tok == loc'[p].token
            IN IF tok \in 1..Len(sessions) /\ now < sessions[tok].expires_at
                 THEN /\ loc'[p].user_id = sessions[tok].user_id
                      /\ ret'[p].kind # "Authentication failed"
                 ELSE /\ loc'[p].user_id = NoId
                      /\ pc'[p] = "done"
                      /\ ret'[p] = Fail("Authentication failed")
     /\ \A tok \in 1..Len(sessions) :
          /\ sessions'[tok] = sessions[tok]
          /\ now >= sessions[tok].expires_at => now' >= sessions'[tok].expires_at]_vars

\* a request made at the very second its session expires has been refused
C13_Witness ==
  \E p \in Procs :
    /\ pc[p] = "done"
    /\ loc[p].op \in TokenOps
    /\ loc[p].token \in 1..Len(sessions)
    /\ now = sessions[loc[p].token].expires_at
    /\ ret[p].kind = "Authentication failed"

\* C14: a login with an unknown username or a wrong password fails and leaves the
\* sessions as they were; a login with the right password appends exactly one
\* session, of that user, and returns its token; nothing else touches the sessions
C14_Login ==
  [][/\ \A p \in Procs :
          (pc[p] = "idle" /\ loc'[p].op = "login") =>
            LET u == loc'[p].username
            IN IF u \in Usernames /\ MOCK_USERS[u].password = loc'[p].password
                 THEN /\ ret'[p].ok
                      /\ ret'[p].token = Len(sessions) + 1
                      /\ Len(sessions') = Len(sessions) + 1
                      /\ SubSeq(sessions', 1, Len(sessions)) = sessions
                      /\ sessions'[ret'[p].token].user_id = MOCK_USERS[u].user_id
                 ELSE /\ ret'[p] = Fail("Invalid username or password")
                      /\ sessions' = sessions
     /\ (\A p \in Procs : ~(pc[p] = "idle" /\ loc'[p].op = "login")) =>
          sessions' = sessions]_vars

\* a second login has succeeded and its session stands beside the first
C14_Witness ==
  \E p \in Procs :
    /\ pc[p] = "done"
    /\ loc[p].op = "login"
    /\ ret[p].ok
    /\ ret[p].token = 2
    /\ Len(sessions) = 2

\* token tok names a session that has not expired
Resolves(tok) == tok \in 1..Len(sessions) /\ now < sessions[tok].expires_at

\* C15: an operation called with a token that does not resolve returns at once a
\* failure that carries no balance, transfer or history, and leaves balances,
\* transfers and the idempotency map as they were
C15_UnresolvedTokenFrame ==
  [][\A p \in Procs :
       (pc[p] = "idle" /\ loc'[p].op \in TokenOps /\ ~Resolves(loc'[p].token)) =>
         /\ pc'[p] = "done"
         /\ ~ret'[p].ok
         /\ ret'[p].balance = 0 /\ ret'[p].transfer_id = NoId /\ ret'[p].amount = 0
         /\ ret'[p].fee = 0 /\ ret'[p].status = "" /\ ret'[p].reference = NoRef
         /\ ret'[p].history = <<>>
         /\ balances' = balances
         /\ transfers' = transfers
         /\ recent_transfers' = recent_transfers]_vars

\* the status of an existing transfer has been asked for with an expired token and
\* refused
C15_Witness ==
  \E p \in Procs :
    /\ pc[p] = "done"
    /\ loc[p].op = "status"
    /\ loc[p].token \in 1..Len(sessions)
    /\ ~Resolves(loc[p].token)
    /\ loc[p].transfer_id \in Ids
    /\ ~ret[p].ok

\* caller p's calculate_fee has returned
FeeReturned(p) == pc[p] = "done" /\ loc[p].op = "fee"

\* C16: the fee of a positive amount lies between 0 and the amount; the fee of an
\* amount that is not positive is 0
C16_FeeRange ==
  \A p \in Procs :
    FeeReturned(p) =>
      IF ret[p].amount <= 0 THEN ret[p].fee = 0
      ELSE 0 <= ret[p].fee /\ ret[p].fee <= ret[p].amount

\* the fee of an amount in the last tier has been computed
C16_Witness ==
  \E p \in Procs :
    /\ FeeReturned(p)
    /\ ret[p].amount > 10000001
    /\ ret[p].fee > 0
    /\ ret[p].fee < ret[p].amount

\* the fee table at the tier boundaries, in cents
BoundaryFees ==
  [a \in TierBoundaries |->
     CASE a = 200000 -> 0
       [] a = 200001 -> 500
       [] a \in {1000000, 1000001} -> 2000
       [] a \in {2000000, 2000001} -> 2500
       [] a \in {5000000, 5000001} -> 4000
       [] a \in {10000000, 10000001} -> 5000]

\* C17: at each tier boundary the fee is the table's: an upper boundary is charged
\* under the lower tier, with its cap
C17_BoundaryFees ==
  \A p \in Procs :
    (FeeReturned(p) /\ ret[p].amount \in TierBoundaries) =>
      ret[p].fee = BoundaryFees[ret[p].amount]

\* the fee of 10000.00, the upper boundary of the second tier, has been computed
C17_Witness ==
  \E p \in Procs :
    /\ FeeReturned(p)
    /\ ret[p].amount = 1000000
    /\ ret[p].fee = 2000

\* C18: the fee of 3333.33 is 8.33, and every fee is a cent nearest to the capped
\* charge min(amount * rate, cap)
C18_FeeRounding ==
  \A p \in Procs :
    FeeReturned(p) =>
      /\ ret[p].amount = 333333 => ret[p].fee = 833
      /\ ret[p].amount > 0 =>
           LET raw == FeeRaw(FEE_TIERS[TierOf(ret[p].amount)], ret[p].amount)
               d == ret[p].fee * 100000 - raw
           IN -50000 <= d /\ d <= 50000

\* the fee of 3333.33 has been computed as 8.33
C18_Witness ==
  \E p \in Procs :
    /\ FeeReturned(p)
    /\ ret[p].amount = 333333
    /\ ret[p].fee = 833

\* C19: a submit_transfer whose settlement commits its transfer as COMPLETED returns
\* success with the transfer's id, amount and fee, whatever becomes of the
\* log_operation call that follows the settlement
C19_AuditFailureKeepsOutcome ==
  [][\A p \in Procs : \A id \in Ids :
        (Completes(p, id) /\ loc[p].op = "submit") =>
          /\ ret'[p].ok
          /\ ret'[p].transfer_id = id
          /\ ret'[p].amount = transfers'[id].amount
          /\ ret'[p].fee = transfers'[id].fee]_vars

\* C20: whatever login, get_balance, submit_transfer, get_transfer_status or
\* get_transaction_history ends with, the database server out of reach included, the
\* caller gets a result and no exception, and a failure carries a message
C20_NeverRaises ==
  \A p \in Procs :
    (pc[p] = "done" /\ loc[p].op \in FaultOps) =>
      /\ ~ret[p].raised
      /\ ret[p].ok \in BOOLEAN
      /\ ~ret[p].ok => ret[p].kind \notin {"", "none"}
      /\ store = "down" => ~ret[p].ok

\* a get_balance has failed because the database server could not be reached, after
\* a submit_transfer completed a transfer
C20_Witness ==
  \E p \in Procs :
    /\ pc[p] = "done"
    /\ loc[p].op = "balance"
    /\ store = "down"
    /\ ret[p] = Fail("Failed to connect to BDB server")
    /\ \E id \in Ids : transfers[id].status = "COMPLETED"

\* the transfers that account a sent or received
TransfersOf(a) ==
  {id \in Ids : transfers[id].from_account_id = a \/ transfers[id].to_account_id = a}

\* caller p holds the result of a successful get_transaction_history
HistoryReturned(p) == pc[p] = "done" /\ loc[p].op = "history" /\ ret[p].ok

\* C21: a successful get_transaction_history(token, limit) returns transfers of the
\* caller's account only, each once, the later created before the earlier created,
\* and as many as the account has up to limit, the latest ones when it has more
C21_HistoryNewestFirst ==
  \A p \in Procs :
    HistoryReturned(p) =>
      LET h == ret[p].history
          rows == TransfersOf(AccountOfUser(loc[p].user_id))
          n == Cardinality(rows)
      IN /\ \A i \in DOMAIN h : h[i] \in rows
         /\ \A i, j \in DOMAIN h : i < j => h[i] > h[j]
         /\ Len(h) = IF loc[p].limit < n THEN loc[p].limit ELSE n
         /\ \A id \in rows : (\A i \in DOMAIN h : h[i] # id) =>
                                \A i \in DOMAIN h : h[i] > id

\* caller p holds the result of a get_transfer_status made with a token that resolves
StatusReturned(p) ==
  pc[p] = "done" /\ loc[p].op = "status" /\ Resolves(loc[p].token)

\* C22: a get_transfer_status with a token that resolves returns the stored row of
\* the transfer whenever the id exists, whoever its accounts belong to, and the
\* failure "Transfer not found" when it does not
C22_StatusOfAnyTransfer ==
  \A p \in Procs :
    StatusReturned(p) =>
      LET id == loc[p].transfer_id
      IN IF id \in Ids
           THEN /\ ret[p].ok
                /\ ret[p].transfer_id = id
                /\ ret[p].from_account_id = transfers[id].from_account_id
                /\ ret[p].to_account_id = transfers[id].to_account_id
                /\ ret[p].amount = transfers[id].amount
                /\ ret[p].fee = transfers[id].fee
                /\ ret[p].status = transfers[id].status
                /\ ret[p].reference = transfers[id].reference
           ELSE ret[p] = Fail("Transfer not found")

\* a caller has been given a transfer that its account neither sent nor received
C22_Witness ==
  \E p \in Procs :
    /\ StatusReturned(p)
    /\ ret[p].ok
    /\ ret[p].transfer_id \in Ids
    /\ AccountOfUser(loc[p].user_id) \in AccountIds
    /\ AccountOfUser(loc[p].user_id) # ret[p].from_account_id
    /\ AccountOfUser(loc[p].user_id) # ret[p].to_account_id

\* the step turns transfer id from PENDING into COMPLETED
Settles(id) ==
  id \in Ids /\ transfers[id].status = "PENDING" /\ transfers'[id].status = "COMPLETED"

\* C23: what the other callers can read changes in one piece: a step changes the
\* balances only if it turns one PENDING transfer into COMPLETED, and the step that
\* does so takes amount + fee from the balance of its sender and adds amount to the
\* balance of its recipient, both as they stood right before the step, and touches
\* no other transfer; a transfer that stays PENDING or becomes FAILED comes with no
\* change of a balance
C23_SettlementAtomic ==
  [][/\ balances' # balances => \E id \in Ids : Settles(id)
     /\ \A id \in Ids :
          Settles(id) =>
            LET t == transfers[id]
            IN /\ \A k \in Ids : k # id => transfers'[k] = transfers[k]
               /\ balances' =
                    [[balances EXCEPT ![t.from_account_id] = @ - (t.amount + t.fee)]
                               EXCEPT ![t.to_account_id] = @ + t.amount]]_vars

\* one settlement has made its updates and waits to commit while a concurrent
\* settlement, which has read the same transfer, still sees it PENDING with the
\* balances as committed
C23_Witness ==
  \E p, q \in Procs :
    /\ pc[p] = "settle_commit"
    /\ pc[q] = "settle_write"
    /\ loc[q].transfer_id = loc[p].transfer_id
    /\ transfers[loc[q].transfer_id].status = "PENDING"
    /\ loc[q].sender_balance = balances[loc[q].tx_from]
    /\ balances = InitBalances

\* C24: a submit_transfer is refused for insufficient funds only when the balance
\* of its sender, as the store holds it at the moment of the refusal, is below
\* amount + fee
C24_FundsDecidedAtSettlement ==
  [][\A p \in Procs :
        (/\ loc[p].op = "submit"
         /\ pc[p] # "done"
         /\ pc'[p] = "done"
         /\ ret'[p].kind \in FundsFailures) =>
          \E fee \in calculate_fee(loc[p].amount) :
             balances[loc[p].sender_account_id] < loc[p].amount + fee]_vars

\* the errors of a settlement that finds nothing to settle
NothingToSettle ==
  {"Transfer record not found", "Transfer is already COMPLETED", "Transfer is already FAILED"}

\* C25: settle_transfer_transaction, called for an id the store does not hold or
\* for a transfer that is already COMPLETED or FAILED, returns an error and leaves
\* the balances and the transfers as they are
C25_SettledAtMostOnce ==
  [][\A p \in Procs :
        (/\ pc[p] = "settle"
         /\ pc'[p] # pc[p]
         /\ \/ loc[p].transfer_id \notin Ids
            \/ transfers[loc[p].transfer_id].status \in Terminal) =>
          /\ pc'[p] = "done"
          /\ ~ret'[p].ok
          /\ ret'[p].kind \in NothingToSettle
          /\ balances' = balances
          /\ transfers' = transfers]_vars

\* a transfer has moved its funds and a second settlement of it has been refused
C25_Witness ==
  \E p \in Procs :
    /\ pc[p] = "done"
    /\ loc[p].op = "settle"
    /\ ret[p].kind = "Transfer is already COMPLETED"
    /\ transfers[loc[p].transfer_id].status = "COMPLETED"
    /\ balances[transfers[loc[p].transfer_id].from_account_id] =
         InitBalances[transfers[loc[p].transfer_id].from_account_id]
           - (transfers[loc[p].transfer_id].amount + transfers[loc[p].transfer_id].fee)

\* caller p's submit_transfer has called settle_transfer_transaction
InSettlement(p) ==
  loc[p].op = "submit" /\ pc[p] \in {"settle", "settle_write", "settle_commit"}

\* C26: when submit_transfer calls the settlement its transfer is a row of the store,
\* and a step changes the balance of an account only for a transfer of that account
\* that was a PENDING row of the store before the step
C26_RecordBeforeFunds ==
  [][/\ \A p \in Procs : InSettlement(p) => loc[p].transfer_id \in Ids
     /\ \A a \in AccountIds :
          balances'[a] # balances[a] =>
            \E id \in Ids :
              /\ transfers[id].status = "PENDING"
              /\ a \in {transfers[id].from_account_id, transfers[id].to_account_id}
              /\ transfers'[id].status = "COMPLETED"]_vars

\* get_transfer_status has shown a caller the PENDING row of a transfer whose
\* submit_transfer is about to settle it, no balance changed yet
C26_Witness ==
  \E p, q \in Procs :
    /\ InSettlement(p)
    /\ pc[p] = "settle"
    /\ pc[q] = "done"
    /\ loc[q].op = "status"
    /\ ret[q].ok
    /\ ret[q].transfer_id = loc[p].transfer_id
    /\ ret[q].status = "PENDING"
    /\ balances = InitBalances

\* transfers id and k go opposite ways between the same two accounts
Symmetric(id, k) ==
  /\ transfers[id].from_account_id = transfers[k].to_account_id
  /\ transfers[id].to_account_id = transfers[k].from_account_id
  /\ transfers[id].from_account_id # transfers[id].to_account_id

\* C27: a submit_transfer that has returned, made while a transfer the opposite way
\* between the same two accounts was submitted, has left its transfer COMPLETED or
\* FAILED
C27_SymmetricTerminal ==
  \A p \in Procs :
    (/\ Returned(p)
     /\ loc[p].transfer_id \in Ids
     /\ \E k \in Ids : Symmetric(loc[p].transfer_id, k)) =>
      transfers[loc[p].transfer_id].status \in Terminal

\* C28: every transfer the store holds has an amount above zero
C28_PersistedAmountPositive ==
  \A id \in Ids : transfers[id].amount > 0

\* caller p's submit_transfer has passed the idempotency test and is still running
PastGuard(p) ==
  /\ loc[p].op = "submit"
  /\ pc[p] \in {"record", "assign", "create", "create_commit", "settle", "settle_write",
                "settle_commit"}

\* C29: two submit_transfer calls that run at the same time with the same key have
\* not both passed the idempotency test within IDEMPOTENCY_WINDOW of each other
C29_GuardAtomic ==
  \A p, q \in Procs :
    (p # q /\ PastGuard(p) /\ PastGuard(q) /\ LocKey(p) = LocKey(q)) =>
      \/ loc[p].current_time - loc[q].current_time >= IDEMPOTENCY_WINDOW
      \/ loc[q].current_time - loc[p].current_time >= IDEMPOTENCY_WINDOW

\* caller p's submit_transfer leaves the idempotency guard in this step: rejected as
\* a duplicate by the test, or accepted with the swept map assigned
LeavesGuard(p) ==
  /\ loc[p].op = "submit"
  /\ \/ pc[p] = "guard" /\ pc'[p] = "done"
     \/ pc[p] = "assign" /\ pc'[p] # "assign"

\* the reading of the clock the guard of caller p works with
GuardClock(p) == IF pc[p] = "guard" THEN now ELSE loc[p].current_time

\* C30: when a submit_transfer leaves the idempotency guard, accepted or rejected as
\* a duplicate, every key of recent_transfers was recorded less than
\* IDEMPOTENCY_WINDOW seconds before the call's reading of the clock
C30_NoStaleKeys ==
  [][\A p \in Procs :
        LeavesGuard(p) =>
          \A k \in DOMAIN recent_transfers' :
             GuardClock(p) - recent_transfers'[k] < IDEMPOTENCY_WINDOW]_vars

\* C31: a session record is written once, by login, with expires_at 24 hours after
\* the login, and no step of any operation changes or removes an existing record
C31_ExpiryFixed ==
  [][/\ Len(sessions') >= Len(sessions)
     /\ \A tok \in 1..Len(sessions') :
          IF tok \in 1..Len(sessions)
            THEN sessions'[tok] = sessions[tok]
            ELSE sessions'[tok].expires_at = now + TOKEN_EXPIRATION_SECONDS]_vars

\* a token was resolved some time after its login, and its session still expires
\* 24 hours after the login
C31_Witness ==
  \E p \in Procs :
    /\ pc[p] = "done"
    /\ ret[p].kind = "balance"
    /\ now > 0
    /\ now + TOKEN_EXPIRATION_SECONDS > sessions[loc[p].token].expires_at

\* caller p's submit_transfer returns success in this step
Succeeds(p) ==
  /\ loc[p].op = "submit"
  /\ pc[p] # "done"
  /\ pc'[p] = "done"
  /\ ret'[p].ok

\* C32: when submit_transfer returns success with transfer id t, amount a and fee f,
\* the stored transfer t is COMPLETED from the caller's account to the recipient
\* with amount a and fee f, f is a value of calculate_fee(a), and the step has taken
\* a + f from the sender's balance and added a to the recipient's
C32_SuccessMatchesStore ==
  [][\A p \in Procs :
        Succeeds(p) =>
          LET r == ret'[p]
              t == r.transfer_id
          IN /\ r.status = "COMPLETED"
             /\ t \in 1..Len(transfers')
             /\ transfers'[t].status = "COMPLETED"
             /\ transfers'[t].amount = r.amount
             /\ transfers'[t].fee = r.fee
             /\ r.fee \in calculate_fee(r.amount)
             /\ transfers'[t].from_account_id = loc[p].sender_account_id
             /\ transfers'[t].to_account_id = loc[p].recipient_account_id
             /\ balances'[loc[p].sender_account_id] =
                  balances[loc[p].sender_account_id] - r.amount - r.fee
             /\ balances'[loc[p].recipient_account_id] =
                  balances[loc[p].recipient_account_id] + r.amount]_vars

\* john's 30000.00 to jane has returned success with the fee of its tier, and both
\* balances show it
C32_Witness ==
  \E p \in Procs :
    /\ Returned(p)
    /\ ret[p].ok
    /\ ret[p].amount = 3000000
    /\ ret[p].fee = 3750
    /\ balances[1001] = InitBalances[1001] - 3003750
    /\ balances[1002] = InitBalances[1002] + 3000000

\* the request of caller p ends in this step
Ends(p) == pc[p] # "done" /\ pc'[p] = "done"

\* C33: the balance of an account changes only in the step of a settlement that
\* turns a transfer of that account, as sender or recipient, into COMPLETED; a
\* login, get_balance, get_transfer_status or get_transaction_history, and the end
\* of a request whose transfer is not COMPLETED, leave every balance as it was
C33_OnlyCompletionMovesFunds ==
  [][/\ \A a \in AccountIds :
          balances'[a] # balances[a] =>
            \E p \in Procs, id \in Ids :
               /\ Completes(p, id)
               /\ a \in {transfers[id].from_account_id, transfers[id].to_account_id}
     /\ \A p \in Procs :
          (Ends(p) /\ loc'[p].op \in {"login", "balance", "status", "history"}) =>
            balances' = balances
     /\ \A p \in Procs :
          (Ends(p) /\ loc'[p].op \in {"submit", "settle"}
             /\ ~(loc'[p].transfer_id \in 1..Len(transfers')
                    /\ transfers'[loc'[p].transfer_id].status = "COMPLETED")) =>
            balances' = balances]_vars

\* after a completed transfer has moved funds, a submit_transfer has ended with its
\* transfer FAILED
C33_Witness ==
  \E p \in Procs :
    /\ Returned(p)
    /\ loc[p].transfer_id \in Ids
    /\ transfers[loc[p].transfer_id].status = "FAILED"
    /\ balances # InitBalances

\* the tiers of the table that hold amount
TiersOf(amount) == {i \in 1..Len(FEE_TIERS) : InTier(FEE_TIERS[i], amount)}

\* C34: each tier of the table starts one cent above the end of the tier before it,
\* the first holds 0.01 and the last has no upper end; and every positive amount
\* whose fee is computed lies in exactly one tier, so the loop of calculate_fee
\* returns from inside
C34_OneTier ==
  /\ FEE_TIERS[1].min <= 1
  /\ FEE_TIERS[Len(FEE_TIERS)].unbounded
  /\ \A i \in 1..(Len(FEE_TIERS) - 1) :
        /\ ~FEE_TIERS[i].unbounded
        /\ FEE_TIERS[i].min <= FEE_TIERS[i].max
        /\ FEE_TIERS[i + 1].min = FEE_TIERS[i].max + 1
  /\ \A p \in Procs :
        (FeeReturned(p) /\ ret[p].amount > 0) =>
          /\ Cardinality(TiersOf(ret[p].amount)) = 1
          /\ TierOf(ret[p].amount) \in TiersOf(ret[p].amount)

\* the fee of 100000.01, the first amount of the last tier, has been computed
\* under that tier
C34_Witness ==
  \E p \in Procs :
    /\ FeeReturned(p)
    /\ ret[p].amount = 10000001
    /\ TiersOf(ret[p].amount) = {Len(FEE_TIERS)}

\* caller p holds the digest of the key of its submission
Keyed(p) == pc[p] = "key"

\* C35: two submissions have the same digest, and so count as duplicates of each
\* other, only if they agree on user id, recipient account id, amount rounded to
\* cents and reference
C35_KeyTellsSubmissionsApart ==
  \A p, q \in Procs :
    (Keyed(p) /\ Keyed(q) /\ loc[p].transfer_hash = loc[q].transfer_hash) =>
      /\ loc[p].user_id = loc[q].user_id
      /\ loc[p].recipient_account_id = loc[q].recipient_account_id
      /\ loc[p].amount = loc[q].amount
      /\ loc[p].text = loc[q].text

\* two users submit the same amount and reference to the same recipient, and their
\* digests differ
C35_Witness ==
  \E p, q \in Procs :
    /\ Keyed(p) /\ Keyed(q)
    /\ loc[p].user_id # loc[q].user_id
    /\ loc[p].recipient_account_id = loc[q].recipient_account_id
    /\ loc[p].amount = loc[q].amount
    /\ loc[p].text = loc[q].text
    /\ loc[p].transfer_hash # loc[q].transfer_hash

\* C36: a caller whose previous submission passed the guard and then failed does
\* not pass the guard with the identical submission less than IDEMPOTENCY_WINDOW
\* seconds later
C36_FailedAttemptCounts ==
  \A p \in Procs :
    (pc[p] = "record" /\ ~last[p].ok /\ last[p].key = LocKey(p)) =>
      loc[p].current_time - last[p].current_time >= IDEMPOTENCY_WINDOW

\* C37: the guard rejects a submission exactly when its key is recorded with a time
\* less than IDEMPOTENCY_WINDOW seconds before the clock reading, and a rejection
\* leaves every recorded time as it was: the window of a key runs from the latest
\* submission that passed the guard, however many duplicates were rejected since
C37_RejectionKeepsWindow ==
  [][\A p \in Procs :
        (pc[p] = "guard" /\ pc'[p] # "guard") =>
          /\ recent_transfers' = recent_transfers
          /\ IF LocKey(p) \in DOMAIN recent_transfers
                  /\ now - recent_transfers[LocKey(p)] < IDEMPOTENCY_WINDOW
               THEN pc'[p] = "done" /\ ret'[p].kind = "Duplicate transfer detected"
               ELSE pc'[p] = "record" /\ loc'[p].current_time = now]_vars

\* a caller's submission passed the guard, was rejected as a duplicate when
\* repeated within the window, and passes the guard again IDEMPOTENCY_WINDOW
\* seconds or more after it first passed, and less than that after the rejection
C37_Witness ==
  \E p \in Procs :
    /\ pc[p] = "record"
    /\ last[p].key = LocKey(p)
    /\ last[p].rejected
    /\ loc[p].current_time - last[p].current_time >= IDEMPOTENCY_WINDOW
    /\ loc[p].current_time - last[p].current_time < IDEMPOTENCY_WINDOW + ShortStep

\* C38: the fee computed for an amount is not above any fee calculate_fee can
\* return for a larger amount, and not below any it can return for a smaller one
C38_FeeMonotonic ==
  \A p \in Procs :
    FeeReturned(p) =>
      \A b \in FeeAmounts :
        \A g \in calculate_fee(b) :
          /\ b > ret[p].amount => g >= ret[p].fee
          /\ b < ret[p].amount => g <= ret[p].fee

\* the fee of 20000.00, the cap of the third tier, has been computed, and 20000.01
\* in the fourth tier pays the same
C38_Witness ==
  \E p \in Procs :
    /\ FeeReturned(p)
    /\ ret[p].amount = 2000000
    /\ ret[p].fee = 2500
    /\ calculate_fee(2000001) = {2500}

\* what validate_session returns for token right after the step
SessionAfter(token) ==
  IF token \in 1..Len(sessions') /\ now' < sessions'[token].expires_at
    THEN sessions'[token].user_id
    ELSE NoId

\* caller p's login succeeds in this step
LogsIn(p) == pc[p] = "idle" /\ loc'[p].op = "login" /\ ret'[p].ok

\* C39: a login that succeeds returns a token no earlier login returned, which
\* resolves to the user who logged in, and every earlier token resolves after the
\* login as it did before; at any time a token whose session has not reached its
\* expires_at resolves to the user of its login
C39_LoginKeepsSessions ==
  [][/\ \A p \in Procs :
          LogsIn(p) =>
            /\ ret'[p].token \notin 1..Len(sessions)
            /\ SessionAfter(ret'[p].token) = Users[loc'[p].username].user_id
            /\ \A tok \in 1..Len(sessions) :
                  SessionAfter(tok) = validate_session(tok)
     /\ \A tok \in 1..Len(sessions) :
          now' < sessions[tok].expires_at =>
            SessionAfter(tok) = sessions[tok].user_id]_vars

\* a token has been honoured after a later login of another user, while its own
\* user holds a second session as well
C39_Witness ==
  \E p \in Procs : \E tok \in 1..Len(sessions) :
    /\ pc[p] = "done"
    /\ ret[p].kind = "balance"
    /\ loc[p].token < tok
    /\ sessions[loc[p].token].user_id # sessions[tok].user_id
    /\ \E t2 \in 1..Len(sessions) :
          t2 # loc[p].token /\ sessions[t2].user_id = sessions[loc[p].token].user_id

====
